---------------------------- MODULE Spec2Model ----------------------------
(***************************************************************************)
(* Model of the ESR tunnelling-junction analyser:                          *)
(*   esr/models.py   the Simmons and BDR current-density functions         *)
(*   esr/fitting.py  fit_model, fit_simmons, fit_bdr (over scipy curve_fit)*)
(*   esr/gui/app.py  AnalyzerApp.load_data / run_fit                       *)
(*                                                                         *)
(* Floating-point numbers are modelled in fixed point: the real r is the   *)
(* integer r * Scale, and a float is a record [k, v] whose kind k is       *)
(* "fin", "big" (finite, beyond the fixed-point range), "inf" or "nan".    *)
(***************************************************************************)
EXTENDS Integers, Sequences, FiniteSets, TLC

\* ------------------------------------------------------------------ bounds
\* Fixed-point resolution: 1.0 is represented by Scale.
Scale == 100
\* Longest voltage sequence handed to a model function.
MaxLen == 3
\* Largest number of samples of a measurement series handed to a fit.
MaxN == 4
\* Largest number of rows of a loaded CSV table.
MaxRows == 3

\* ------------------------------------------------------- program constants
\* models.py: A = 1e5 (pre-factor), B = 10.0 (decay constant).
A == 100000
B == 10
\* fitting.py: maxfev=20000 in the call of curve_fit.
MAXFEV == 20000

\* ------------------------------------------------------------------ floats
\* A float is [k, v]: "fin" with the fixed-point value v, "big" for a finite
\* number beyond the fixed-point range, "inf" and "nan" (v is then 0). The
\* sign of a big or infinite number is not tracked.
Fin(x) == [k |-> "fin", v |-> x]
Big == [k |-> "big", v |-> 0]
Inf == [k |-> "inf", v |-> 0]
NaN == [k |-> "nan", v |-> 0]

IsFin(x) == x.k = "fin"
IsZero(x) == x.k = "fin" /\ x.v = 0

\* x * y: nan propagates, 0 * inf is nan, 0 * finite is 0.
FMul(x, y) ==
  IF x.k = "nan" \/ y.k = "nan" THEN NaN
  ELSE IF x.k = "inf" \/ y.k = "inf"
    THEN (IF IsZero(x) \/ IsZero(y) THEN NaN ELSE Inf)
  ELSE IF x.k = "big" \/ y.k = "big"
    THEN (IF IsZero(x) \/ IsZero(y) THEN Fin(0) ELSE Big)
  ELSE Fin((x.v * y.v) \div Scale)

\* x / y for a finite nonzero y.
FDiv(x, y) ==
  IF IsFin(x) /\ IsFin(y) THEN Fin((x.v * Scale) \div y.v) ELSE x

FSub(x, y) ==
  IF x.k = "nan" \/ y.k = "nan" THEN NaN
  ELSE IF x.k = "inf" /\ y.k = "inf" THEN NaN
  ELSE IF x.k = "inf" \/ y.k = "inf" THEN Inf
  ELSE IF x.k = "big" \/ y.k = "big" THEN Big
  ELSE Fin(x.v - y.v)

FAdd(x, y) ==
  IF x.k = "nan" \/ y.k = "nan" THEN NaN
  ELSE IF x.k = "inf" \/ y.k = "inf" THEN Inf
  ELSE IF x.k = "big" \/ y.k = "big" THEN Big
  ELSE Fin(x.v + y.v)

FNeg(x) == IF IsFin(x) THEN Fin(0 - x.v) ELSE x

\* max(x, c) for a finite c, as np.maximum computes it: nan propagates.
FMax(x, c) ==
  IF IsFin(x) THEN (IF x.v > c.v THEN x ELSE c) ELSE x

\* Largest r with r * r <= n.
RECURSIVE ISqrtFrom(_, _)
ISqrtFrom(n, r) == IF (r + 1) * (r + 1) > n THEN r ELSE ISqrtFrom(n, r + 1)

\* sqrt(x): nan for a negative argument, sqrt(0) = 0 exactly.
FSqrt(x) ==
  IF ~IsFin(x) THEN x
  ELSE IF x.v < 0 THEN NaN
  ELSE Fin(ISqrtFrom(x.v * Scale, 0))

\* e^(-y) for a fixed-point y >= 0: a fourth-order series on [0, 1] and
\* squaring above it; e^0 = 1 exactly and large y underflows to 0.
RECURSIVE ExpNeg(_)
ExpNeg(y) ==
  IF y = 0 THEN Scale
  ELSE IF y <= Scale
    THEN LET y2 == (y * y) \div Scale
             y3 == (y2 * y) \div Scale
             y4 == (y3 * y) \div Scale
         IN (Scale * Scale) \div (Scale + y + y2 \div 2 + y3 \div 6 + y4 \div 24)
  ELSE LET h == ExpNeg(y \div 2) IN (h * h) \div Scale

\* exp(x): for a positive argument the reciprocal of e^(-x), big once that
\* leaves the fixed-point range, and inf from 709.78 on (float64).
FExp(x) ==
  IF ~IsFin(x) THEN x
  ELSE IF x.v <= 0 THEN Fin(ExpNeg(0 - x.v))
  ELSE IF x.v > 709 * Scale THEN Inf
  ELSE LET d == ExpNeg(x.v) IN
    IF d = 0 THEN Big ELSE Fin((Scale * Scale) \div d)

\* --------------------------------------------------------- numpy broadcasts
\* An array is a sequence of floats; a scalar operand is broadcast over it.
np_maximum(X, c) == [i \in 1..Len(X) |-> FMax(X[i], c)]
np_sqrt(X) == [i \in 1..Len(X) |-> FSqrt(X[i])]
np_exp(X) == [i \in 1..Len(X) |-> FExp(X[i])]
ArrDivScalar(X, c) == [i \in 1..Len(X) |-> FDiv(X[i], c)]
ScalarSubArr(c, X) == [i \in 1..Len(X) |-> FSub(c, X[i])]
ScalarAddArr(c, X) == [i \in 1..Len(X) |-> FAdd(c, X[i])]
ScalarMulArr(c, X) == [i \in 1..Len(X) |-> FMul(c, X[i])]
\* Two arrays of one length (both come from V).
ArrMulArr(X, Y) == [i \in 1..Len(X) |-> FMul(X[i], Y[i])]

\* ------------------------------------------------------------ esr/models.py
A_f == Fin(A * Scale)
B_f == Fin(B * Scale)
Two_f == Fin(2 * Scale)

\* The clamp dropped: effective = barrier_height - V / 2.0.
simmons_no_clamp(V, barrier_height, barrier_thickness) ==
  LET effective == ScalarSubArr(barrier_height, ArrDivScalar(V, Two_f))
  IN ArrMulArr(ScalarMulArr(A_f, V),
               np_exp(ScalarMulArr(FMul(FNeg(B_f), barrier_thickness),
                                   np_sqrt(effective))))

simmons_current_density(V, barrier_height, barrier_thickness) ==
  LET effective == np_maximum(
                     ScalarSubArr(barrier_height, ArrDivScalar(V, Two_f)), Fin(0))
  IN ArrMulArr(ScalarMulArr(A_f, V),
               np_exp(ScalarMulArr(FMul(FNeg(B_f), barrier_thickness),
                                   np_sqrt(effective))))

\* The asymmetry term subtracted instead of added.
bdr_wrong_sign(V, avg_barrier_height, barrier_thickness, asymmetry) ==
  LET effective == np_maximum(
                     ScalarSubArr(avg_barrier_height,
                                  ScalarMulArr(asymmetry, V)), Fin(0))
  IN ArrMulArr(ScalarMulArr(A_f, V),
               np_exp(ScalarMulArr(FMul(FNeg(B_f), barrier_thickness),
                                   np_sqrt(effective))))

bdr_current_density(V, avg_barrier_height, barrier_thickness, asymmetry) ==
  LET effective == np_maximum(
                     ScalarAddArr(avg_barrier_height,
                                  ScalarMulArr(asymmetry, V)), Fin(0))
  IN ArrMulArr(ScalarMulArr(A_f, V),
               np_exp(ScalarMulArr(FMul(FNeg(B_f), barrier_thickness),
                                   np_sqrt(effective))))

\* ----------------------------------------------------------- esr/fitting.py
Models == {"simmons", "bdr"}

\* Number of parameters a model function takes after V.
Arity(model) == IF model = "simmons" THEN 2 ELSE 3

\* Initial guesses a caller hands to fit_model (fixed point).
P0s == { <<Scale, Scale>>, <<Scale, Scale, 0>>, <<2 * Scale, 2 * Scale>> }

\* What MINPACK's lmdif can end with, as leastsq reports it: ier 1..4 are
\* the converged codes, 5 is "number of calls to function has reached
\* maxfev"; singular says the Jacobian at the end point has no inverse
\* (leastsq then returns cov_x = None).
SolverResults == { [ier |-> 1, singular |-> FALSE],
                   [ier |-> 4, singular |-> TRUE],
                   [ier |-> 5, singular |-> FALSE] }

\* The numeric content of a measurement series is abstracted to how the
\* solver ends on it for each well-formed problem posed over it: the
\* Simmons model from (1.0, 1.0), the Simmons model from another start, the
\* BDR model from (1.0, 1.0, 0.0). The response is carried by the ydata
\* array.
Responses == [sim : SolverResults, alt : SolverResults, bdr : SolverResults]
Converged == [ier |-> 1, singular |-> FALSE]
DefaultResp == [sim |-> Converged, alt |-> Converged, bdr |-> Converged]
SolverResult(resp, f, p0) ==
  IF f = "bdr" THEN resp.bdr
  ELSE IF p0 = <<Scale, Scale>> THEN resp.sim ELSE resp.alt

\* Voltage arrays [len, finite] and current arrays [len, finite, resp].
VArrays(n) == [len : 0..n, finite : BOOLEAN]
JArrays(n) == [len : 0..n, finite : BOOLEAN, resp : Responses]

NoOutcome == [tag |-> "none", exc |-> "none", f |-> "none", start |-> <<>>,
              ier |-> 0, pcov |-> "none"]
Raise(e) == [tag |-> "raise", exc |-> e, f |-> "none", start |-> <<>>,
             ier |-> 0, pcov |-> "none"]
\* (popt, pcov): popt is the point lmdif ended at for problem (f, start).
Return(f, start, ier, pcov) ==
  [tag |-> "return", exc |-> "none", f |-> f, start |-> start,
   ier |-> ier, pcov |-> pcov]

\* curve_fit called without maxfev: leastsq then uses 200 * (n + 1).
curve_fit_args_default_maxfev(V, J, model, p0) ==
  [f |-> model, xdata |-> V, ydata |-> J, p0 |-> p0,
   maxfev |-> 200 * (Len(p0) + 1)]

\* fit_model line 34: curve_fit(model, V, J, p0=p0, maxfev=20000).
curve_fit_args(V, J, model, p0) ==
  [f |-> model, xdata |-> V, ydata |-> J, p0 |-> p0, maxfev |-> MAXFEV]

\* curve_fit before leastsq (method 'lm', check_finite on): both arrays
\* must be finite, ydata non-empty, and no more parameters than data
\* points unless ydata has one element (it may then be broadcast).
curve_fit_validate(a) ==
  IF ~a.ydata.finite \/ ~a.xdata.finite THEN Raise("ValueError")
  ELSE IF a.ydata.len = 0 THEN Raise("ValueError")
  ELSE IF a.ydata.len # 1 /\ Len(a.p0) > a.ydata.len THEN Raise("TypeError")
  ELSE NoOutcome

\* Shape of f(xdata, *p0) - ydata under numpy broadcasting; -1 when the
\* shapes do not broadcast.
BroadcastLen(n, m) ==
  IF n = m THEN n ELSE IF n = 1 THEN m ELSE IF m = 1 THEN n ELSE 0 - 1

\* leastsq's _check_func: one evaluation of f(xdata, *p0) - ydata at p0.
\* [out, nfev, m]: a raised exception or NoOutcome, the number of times
\* the model function ran, and the residual length.
leastsq_check_func(a) ==
  IF Len(a.p0) # Arity(a.f)
    THEN [out |-> Raise("TypeError"), nfev |-> 0, m |-> 0]
  ELSE LET m == BroadcastLen(a.xdata.len, a.ydata.len) IN
    IF m < 0 THEN [out |-> Raise("ValueError"), nfev |-> 1, m |-> 0]
    ELSE IF Len(a.p0) > m THEN [out |-> Raise("TypeError"), nfev |-> 1, m |-> m]
    ELSE [out |-> NoOutcome, nfev |-> 1, m |-> m]

\* Evaluations of the model function by the time lmdif ends: the whole
\* budget for ier = 5, otherwise at least the start point and one
\* forward-difference Jacobian.
lmdif_nfev(a, sr) ==
  IF sr.ier = 5 THEN a.maxfev ELSE 1 + Len(a.p0)

\* curve_fit after leastsq: RuntimeError unless ier is 1..4; an undefined
\* covariance (cov_x None, or no more residuals than parameters) is
\* filled with inf and returned with an OptimizeWarning.
curve_fit_finish(a, sr, m) ==
  IF sr.ier \notin 1..4 THEN Raise("RuntimeError")
  ELSE IF sr.singular THEN Return(a.f, a.p0, sr.ier, "inf")
  ELSE IF m > Len(a.p0) THEN Return(a.f, a.p0, sr.ier, "finite")
  ELSE Return(a.f, a.p0, sr.ier, "inf")

\* The whole of curve_fit: [out, nfev].
curve_fit(a) ==
  LET v == curve_fit_validate(a) IN
  IF v.tag = "raise" THEN [out |-> v, nfev |-> 0]
  ELSE LET c == leastsq_check_func(a) IN
    IF c.out.tag = "raise" THEN [out |-> c.out, nfev |-> c.nfev]
    ELSE LET sr == SolverResult(a.ydata.resp, a.f, a.p0) IN
      [out |-> curve_fit_finish(a, sr, c.m),
       nfev |-> c.nfev + lmdif_nfev(a, sr)]

\* fit_model returns what curve_fit returns and lets its exceptions pass.
fit_model(V, J, model, p0) == curve_fit(curve_fit_args(V, J, model, p0)).out

\* fit_simmons binding the BDR guess.
fit_simmons_binds_bdr_guess == [model |-> "simmons", p0 |-> <<Scale, Scale, 0>>]

\* fit_simmons: p0 = (1.0, 1.0), model simmons_current_density.
fit_simmons_binding == [model |-> "simmons", p0 |-> <<Scale, Scale>>]

\* fit_bdr: p0 = (1.0, 1.0, 0.0), model bdr_current_density.
fit_bdr_binding == [model |-> "bdr", p0 |-> <<Scale, Scale, 0>>]

\* ------------------------------------------------------------------- state
VARIABLES
  pc,          \* where the fit in progress stands
  call,        \* the fit in progress: [entry, V, J, model, p0]
  cf_calls,    \* the calls of curve_fit made by the fit in progress
  nfev,        \* evaluations of the model function during the fit
  resid,       \* length of the residual vector seen by leastsq
  solver,      \* what lmdif ended with: [ran, ier, singular]
  outcome,     \* what the fit returned or raised
  df,          \* AnalyzerApp.df
  result_var,  \* AnalyzerApp.result_var
  model_var,   \* AnalyzerApp.model_var
  dialog,      \* the last message box shown
  figure,      \* what the figure holds: "blank", "axes", "raw" or "fit"
  ev,          \* the last GUI event handled and how it ended
  mcall,       \* the model-library call made: [fn, V, h, s, a]
  mout         \* its result

fitvars == <<pc, call, cf_calls, nfev, resid, solver, outcome>>
appvars == <<df, result_var, model_var, dialog, figure, ev>>
modvars == <<mcall, mout>>
vars == <<pc, call, cf_calls, nfev, resid, solver, outcome,
          df, result_var, model_var, dialog, figure, ev, mcall, mout>>

NoCall == [entry |-> "none", V |-> [len |-> 0, finite |-> TRUE],
           J |-> [len |-> 0, finite |-> TRUE, resp |-> DefaultResp],
           model |-> "none", p0 |-> <<>>]

NoSolver == [ran |-> FALSE, ier |-> 0, singular |-> FALSE]

FitInit ==
  /\ pc = "idle"
  /\ solver = NoSolver
  /\ call = NoCall
  /\ cf_calls = <<>>
  /\ nfev = 0
  /\ resid = 0
  /\ outcome = NoOutcome

\* A caller enters fit_model(V, J, model, p0).
Enter(entry, V, J, model, p0) ==
  /\ pc = "idle"
  /\ pc' = "fit_model"
  /\ call' = [entry |-> entry, V |-> V, J |-> J, model |-> model, p0 |-> p0]
  /\ cf_calls' = <<>>
  /\ nfev' = 0
  /\ resid' = 0
  /\ solver' = NoSolver
  /\ outcome' = NoOutcome

call_fit_model ==
  /\ pc = "idle"
  /\ \E V \in VArrays(MaxN), J \in JArrays(MaxN), model \in Models,
        p0 \in P0s :
       Enter("fit_model", V, J, model, p0)
  /\ UNCHANGED <<appvars, modvars>>

call_fit_simmons ==
  /\ pc = "idle"
  /\ \E V \in VArrays(MaxN), J \in JArrays(MaxN) :
       Enter("fit_simmons", V, J, fit_simmons_binding.model,
             fit_simmons_binding.p0)
  /\ UNCHANGED <<appvars, modvars>>

call_fit_bdr ==
  /\ pc = "idle"
  /\ \E V \in VArrays(MaxN), J \in JArrays(MaxN) :
       Enter("fit_bdr", V, J, fit_bdr_binding.model, fit_bdr_binding.p0)
  /\ UNCHANGED <<appvars, modvars>>

\* fit_model, line 34: the one call of curve_fit.
fit_model_calls_curve_fit ==
  /\ pc = "fit_model"
  /\ cf_calls' = Append(cf_calls,
                        curve_fit_args(call.V, call.J, call.model, call.p0))
  /\ pc' = "curve_fit"
  /\ UNCHANGED <<call, nfev, resid, solver, outcome, appvars, modvars>>

\* An exception raised inside curve_fit leaves fit_model at once: line 34
\* stands in no try block.
curve_fit_validates ==
  /\ pc = "curve_fit"
  /\ LET v == curve_fit_validate(cf_calls[Len(cf_calls)]) IN
       IF v.tag = "raise"
         THEN outcome' = v /\ pc' = "done"
         ELSE outcome' = outcome /\ pc' = "leastsq"
  /\ UNCHANGED <<call, cf_calls, nfev, resid, solver, appvars, modvars>>

leastsq_checks_func ==
  /\ pc = "leastsq"
  /\ LET c == leastsq_check_func(cf_calls[Len(cf_calls)]) IN
       /\ nfev' = nfev + c.nfev
       /\ resid' = c.m
       /\ IF c.out.tag = "raise"
            THEN outcome' = c.out /\ pc' = "done"
            ELSE outcome' = outcome /\ pc' = "lmdif"
  /\ UNCHANGED <<call, cf_calls, solver, appvars, modvars>>

\* The optimizer runs from p0 until it converges or spends maxfev.
lmdif_runs ==
  /\ pc = "lmdif"
  /\ LET a == cf_calls[Len(cf_calls)]
         sr == SolverResult(a.ydata.resp, a.f, a.p0)
     IN /\ nfev' = nfev + lmdif_nfev(a, sr)
        /\ solver' = [ran |-> TRUE, ier |-> sr.ier, singular |-> sr.singular]
  /\ pc' = "finish"
  /\ UNCHANGED <<call, cf_calls, resid, outcome, appvars, modvars>>

curve_fit_finishes ==
  /\ pc = "finish"
  /\ outcome' = curve_fit_finish(cf_calls[Len(cf_calls)], solver, resid)
  /\ pc' = "done"
  /\ UNCHANGED <<call, cf_calls, nfev, resid, solver, appvars, modvars>>

\* The caller of the fitting API takes the result.
fit_returns ==
  /\ pc = "done"
  /\ pc' = "idle"
  /\ call' = NoCall
  /\ cf_calls' = <<>>
  /\ nfev' = 0
  /\ resid' = 0
  /\ solver' = NoSolver
  /\ outcome' = NoOutcome
  /\ UNCHANGED <<appvars, modvars>>

\* ----------------------------------------------------------- esr/gui/app.py
\* A loaded table: its number of rows and columns and what its first two
\* columns hold (finite numbers, some nan, or text); resp as for JArrays.
NoneDf == [is_none |-> TRUE, rows |-> 0, cols |-> 0, content |-> "none",
           resp |-> DefaultResp]
\* The application starts every fit from a default guess.
AppResponses == { r \in Responses : r.alt = Converged }
Tables == [is_none : {FALSE}, rows : 0..MaxRows, cols : {1, 2},
           content : {"finite", "nan", "text"}, resp : AppResponses]

\* What a path names: a file pandas cannot read, or a table.
Files == [readable : {TRUE}, table : Tables]
           \cup { [readable |-> FALSE, table |-> NoneDf] }

\* askopenfilename returns "" when the dialog is cancelled.
Paths == {"", "iv.csv"}

NoResults == [text |-> "No results yet", n |-> 0, path |-> "", ier |-> 0]
Loaded(n, path) == [text |-> "Loaded", n |-> n, path |-> path, ier |-> 0]
\* desc: the model's name and the formatted parameters of the fit.
Desc(model, n, ier) ==
  [text |-> IF model = "simmons" THEN "Simmons fit" ELSE "BDR fit",
   n |-> n, path |-> "", ier |-> ier]

\* load_data with the except branch dropping the table held so far.
load_data_drops_df(path, file) ==
  IF path = ""
    THEN [df |-> df, result_var |-> result_var, dialog |-> dialog,
          figure |-> figure, ev |-> "cancelled"]
  ELSE IF ~file.readable
    THEN [df |-> NoneDf, result_var |-> NoResults, dialog |-> "Error",
          figure |-> figure, ev |-> "load_raised"]
  ELSE IF file.table.cols < 2
    THEN [df |-> file.table, result_var |-> Loaded(file.table.rows, path),
          dialog |-> "Error", figure |-> "axes", ev |-> "plot_raised"]
  ELSE [df |-> file.table, result_var |-> Loaded(file.table.rows, path),
        dialog |-> dialog, figure |-> "raw", ev |-> "loaded"]

\* load_data, lines 66-77: return on an empty path; inside the try, df is
\* assigned, then the result text, then _plot_raw() clears the figure, adds
\* the axes and reads columns 0 and 1 (IndexError on a one-column table);
\* any exception of the three ends in showerror("Error", ...).
load_data(path, file) ==
  IF path = ""
    THEN [df |-> df, result_var |-> result_var, dialog |-> dialog,
          figure |-> figure, ev |-> "cancelled"]
  ELSE IF ~file.readable
    THEN [df |-> df, result_var |-> result_var, dialog |-> "Error",
          figure |-> figure, ev |-> "load_raised"]
  ELSE IF file.table.cols < 2
    THEN [df |-> file.table, result_var |-> Loaded(file.table.rows, path),
          dialog |-> "Error", figure |-> "axes", ev |-> "plot_raised"]
  ELSE [df |-> file.table, result_var |-> Loaded(file.table.rows, path),
        dialog |-> dialog, figure |-> "raw", ev |-> "loaded"]

LoadData ==
  /\ pc = "idle"
  /\ \E path \in Paths, file \in Files :
       LET r == load_data(path, file) IN
         /\ df' = r.df
         /\ result_var' = r.result_var
         /\ dialog' = r.dialog
         /\ figure' = r.figure
         /\ ev' = r.ev
  /\ UNCHANGED <<model_var, fitvars, modvars>>

\* The OptionMenu sets model_var.
SelectModel ==
  /\ pc = "idle"
  /\ \E m \in Models : model_var' = m
  /\ ev' = "selected"
  /\ UNCHANGED <<df, result_var, dialog, figure, fitvars, modvars>>

\* run_fit, lines 95-97: no table loaded.
RunFitNoData ==
  /\ pc = "idle"
  /\ df.is_none
  /\ dialog' = "No data"
  /\ ev' = "no_data"
  /\ UNCHANGED <<df, result_var, model_var, figure, fitvars, modvars>>

\* run_fit, lines 99-100, outside the try: column 1 missing (IndexError) or
\* text that is no float (ValueError) leaves the handler uncaught.
RunFitUncaught ==
  /\ pc = "idle"
  /\ ~df.is_none
  /\ df.cols < 2 \/ df.content = "text"
  /\ ev' = "uncaught"
  /\ UNCHANGED <<df, result_var, model_var, dialog, figure, fitvars, modvars>>

\* run_fit, lines 102-109: fit_simmons(V, J) or fit_bdr(V, J) by model_var.
RunFitCalls ==
  /\ pc = "idle"
  /\ ~df.is_none
  /\ df.cols >= 2 /\ df.content # "text"
  /\ LET V == [len |-> df.rows, finite |-> df.content = "finite"]
         J == [len |-> df.rows, finite |-> df.content = "finite",
               resp |-> df.resp]
     IN IF model_var = "simmons"
          THEN Enter("fit_simmons", V, J, fit_simmons_binding.model,
                     fit_simmons_binding.p0)
          ELSE Enter("fit_bdr", V, J, fit_bdr_binding.model,
                     fit_bdr_binding.p0)
  /\ ev' = "fitting"
  /\ UNCHANGED <<df, result_var, model_var, dialog, figure, modvars>>

\* run_fit from the return of the fit on: the result text is set after the
\* fit returned, then the data and the fitted curve are drawn; an exception
\* ends in showerror("Fit error", ...).
run_fit_end(out) ==
  IF out.tag = "raise"
    THEN [result_var |-> result_var, dialog |-> "Fit error",
          figure |-> figure, ev |-> "fit_raised"]
    ELSE [result_var |-> Desc(out.f, df.rows, out.ier), dialog |-> dialog,
          figure |-> "fit", ev |-> "fitted"]

RunFitEnds ==
  /\ pc = "done"
  /\ LET r == run_fit_end(outcome) IN
       /\ result_var' = r.result_var
       /\ dialog' = r.dialog
       /\ figure' = r.figure
       /\ ev' = r.ev
  /\ pc' = "idle"
  /\ call' = NoCall
  /\ cf_calls' = <<>>
  /\ nfev' = 0
  /\ resid' = 0
  /\ solver' = NoSolver
  /\ outcome' = NoOutcome
  /\ UNCHANGED <<df, model_var, modvars>>

\* AnalyzerApp.__init__ and _build_ui.
AppInit ==
  /\ df = NoneDf
  /\ result_var = NoResults
  /\ model_var = "simmons"
  /\ dialog = "none"
  /\ figure = "blank"
  /\ ev = "none"

\* ------------------------------------------------------ model-library calls
Volts == { Fin(0 - Scale), Fin(0), Fin(Scale \div 2), Fin(Scale),
           Fin(2 * Scale) }
Heights == { Fin(Scale \div 2), Fin(Scale) }
Thicknesses == { Fin(Scale \div 10), Fin(Scale) }
Asymmetries == { Fin(0 - Scale), Fin(0), Fin(Scale \div 2) }

RECURSIVE SeqsUpTo(_, _)
SeqsUpTo(S, n) ==
  IF n = 0 THEN { <<>> }
  ELSE LET shorter == SeqsUpTo(S, n - 1)
       IN shorter \cup { Append(q, x) : q \in shorter, x \in S }

NoModelCall == [fn |-> "none", V |-> <<>>, h |-> Fin(0), s |-> Fin(0),
                a |-> Fin(0)]

ModInit ==
  /\ mcall = NoModelCall
  /\ mout = <<>>

CallSimmons ==
  /\ mcall.fn = "none"
  /\ \E V \in SeqsUpTo(Volts, MaxLen), h \in Heights, s \in Thicknesses :
       /\ mcall' = [fn |-> "simmons", V |-> V, h |-> h, s |-> s, a |-> Fin(0)]
       /\ mout' = simmons_current_density(V, h, s)
  /\ UNCHANGED <<fitvars, appvars>>

CallBdr ==
  /\ mcall.fn = "none"
  /\ \E V \in SeqsUpTo(Volts, MaxLen), h \in Heights, s \in Thicknesses,
        a \in Asymmetries :
       /\ mcall' = [fn |-> "bdr", V |-> V, h |-> h, s |-> s, a |-> a]
       /\ mout' = bdr_current_density(V, h, s, a)
  /\ UNCHANGED <<fitvars, appvars>>

ModelReturns ==
  /\ mcall.fn # "none"
  /\ mcall' = NoModelCall
  /\ mout' = <<>>
  /\ UNCHANGED <<fitvars, appvars>>

\* ----------------------------------------------------------- specifications
\* The model library called on its own.
InitModels == ModInit /\ FitInit /\ AppInit
NextModels == CallSimmons \/ CallBdr \/ ModelReturns
SpecModels == InitModels /\ [][NextModels]_vars

\* The fitting API called directly.
InitFit == ModInit /\ FitInit /\ AppInit
NextFit ==
  \/ call_fit_model
  \/ call_fit_simmons
  \/ call_fit_bdr
  \/ fit_model_calls_curve_fit
  \/ curve_fit_validates
  \/ leastsq_checks_func
  \/ lmdif_runs
  \/ curve_fit_finishes
  \/ fit_returns
SpecFit == InitFit /\ [][NextFit]_vars

\* The application: GUI events, each fit running to its end.
InitApp == ModInit /\ FitInit /\ AppInit
NextApp ==
  \/ LoadData
  \/ SelectModel
  \/ RunFitNoData
  \/ RunFitUncaught
  \/ RunFitCalls
  \/ fit_model_calls_curve_fit
  \/ curve_fit_validates
  \/ leastsq_checks_func
  \/ lmdif_runs
  \/ curve_fit_finishes
  \/ RunFitEnds
SpecApp == InitApp /\ [][NextApp]_vars

\* ------------------------------------------------------------------- claims
\* The failure taxonomy of the specification, read on the calls of
\* fit_model with finite data: which exception kinds the code raises for
\* calls that are faulty in shape only, short of data only, or well formed
\* with a solver that does not converge.
FiniteCalls ==
  { c \in [V : VArrays(MaxN), J : JArrays(MaxN), model : Models, p0 : P0s] :
      c.V.finite /\ c.J.finite }
ShapeFault(c) == c.V.len # c.J.len \/ Len(c.p0) # Arity(c.model)
DataFault(c) == c.V.len < Arity(c.model) \/ c.J.len < Arity(c.model)
SolverFault(c) ==
  LET sr == SolverResult(c.J.resp, c.model, c.p0) IN sr.ier = 5 \/ sr.singular
KindsRaised(C) ==
  { fit_model(c.V, c.J, c.model, c.p0).exc :
      c \in { d \in C : fit_model(d.V, d.J, d.model, d.p0).tag = "raise" } }
DimensionKinds ==
  KindsRaised({ c \in FiniteCalls : ShapeFault(c) /\ ~DataFault(c) })
DataKinds ==
  KindsRaised({ c \in FiniteCalls : DataFault(c) /\ ~ShapeFault(c) })
ConvergenceKinds ==
  KindsRaised({ c \in FiniteCalls :
                  ~ShapeFault(c) /\ ~DataFault(c) /\ SolverFault(c) })

Finished == pc = "done"
\* The series handed to the fit in progress hold finite numbers only.
FiniteData == call.V.finite /\ call.J.finite

\* C1 (as claimed, whatever the kind of the failure): a finished fit_model
\* call on finite data with len(V) # len(J) has raised and has returned no
\* (params, covariance) pair.
C1_LengthMismatchRaises ==
  (Finished /\ FiniteData /\ call.V.len # call.J.len) =>
    outcome.tag = "raise"

\* C2 (as claimed): a finished fit_model call on finite data with a guess of
\* the model's arity and len(V) = len(J) below the model's parameter count
\* has raised, with a failure kind that is raised neither for a shape fault
\* nor for a failed convergence.
C2_TooFewSamplesRaisesDataError ==
  (Finished /\ FiniteData /\ Len(call.p0) = Arity(call.model)
     /\ call.V.len = call.J.len /\ call.V.len < Arity(call.model)) =>
    /\ outcome.tag = "raise"
    /\ outcome.exc \notin (DimensionKinds \cup ConvergenceKinds)

\* C3 (as claimed): a finished fit_model call on finite series of one
\* length, no shorter than the model's parameter count, whose initial guess
\* has not the model's arity has raised, with a failure kind that is raised
\* neither for a data shortage nor for a failed convergence.
C3_ArityMismatchRaisesDimensionError ==
  (Finished /\ FiniteData /\ call.V.len = call.J.len
     /\ call.V.len >= Arity(call.model)
     /\ Len(call.p0) # Arity(call.model)) =>
    /\ outcome.tag = "raise"
    /\ outcome.exc \notin (DataKinds \cup ConvergenceKinds)

\* C4 (as claimed): a finished fit_model call whose optimizer spent its
\* evaluation budget (ier 5) or ended where the Jacobian is singular has
\* raised and has returned no (params, covariance) pair.
C4_SolverFailureRaises ==
  (Finished /\ solver.ran /\ (solver.ier = 5 \/ solver.singular)) =>
    outcome.tag = "raise"

\* C5 (as claimed): a finished fit_model call on finite data that fails one
\* of the shape and arity checks has evaluated the model function zero
\* times.
C5_NoEvaluationOnBadShape ==
  (Finished /\ FiniteData
     /\ (\/ call.V.len # call.J.len
         \/ Len(call.p0) # Arity(call.model)
         \/ call.V.len < Arity(call.model))) =>
    nfev = 0

\* The element-wise closed forms of the contract.
SimmonsElement(v, h, s) ==
  FMul(FMul(A_f, v),
       FExp(FMul(FMul(FNeg(B_f), s),
                 FSqrt(FMax(FSub(h, FDiv(v, Two_f)), Fin(0))))))
BdrElement(v, h, s, a) ==
  FMul(FMul(A_f, v),
       FExp(FMul(FMul(FNeg(B_f), s),
                 FSqrt(FMax(FAdd(h, FMul(a, v)), Fin(0))))))

\* C6: simmons_current_density(V, h, s) has the length of V, its i-th
\* element is A * v * exp(-B * s * sqrt(max(h - v/2, 0))), and where
\* h - v/2 <= 0 the element is exactly A * v, with no domain error.
C6_SimmonsContract ==
  mcall.fn = "simmons" =>
    /\ Len(mout) = Len(mcall.V)
    /\ \A i \in 1..Len(mcall.V) :
         /\ mout[i] = SimmonsElement(mcall.V[i], mcall.h, mcall.s)
         /\ IsFin(mout[i])
         /\ FSub(mcall.h, FDiv(mcall.V[i], Two_f)).v <= 0
              => mout[i] = FMul(A_f, mcall.V[i])
C6_Witness ==
  /\ mcall.fn = "simmons"
  /\ \E i \in 1..Len(mcall.V) :
       /\ FSub(mcall.h, FDiv(mcall.V[i], Two_f)).v < 0
       /\ mout[i] = FMul(A_f, mcall.V[i])
  /\ \E i \in 1..Len(mcall.V) :
       /\ FSub(mcall.h, FDiv(mcall.V[i], Two_f)).v > 0
       /\ mout[i].v > 0
       /\ mout[i] # FMul(A_f, mcall.V[i])

\* C7: bdr_current_density(V, h, s, a) has the length of V, its i-th element
\* is A * v * exp(-B * s * sqrt(max(h + a * v, 0))), where h + a * v <= 0
\* the element is exactly A * v, and for v = 0 the element is 0.
C7_BdrContract ==
  mcall.fn = "bdr" =>
    /\ Len(mout) = Len(mcall.V)
    /\ \A i \in 1..Len(mcall.V) :
         /\ mout[i] = BdrElement(mcall.V[i], mcall.h, mcall.s, mcall.a)
         /\ FAdd(mcall.h, FMul(mcall.a, mcall.V[i])).v <= 0
              => mout[i] = FMul(A_f, mcall.V[i])
         /\ mcall.V[i] = Fin(0) => mout[i] = Fin(0)
C7_Witness ==
  /\ mcall.fn = "bdr"
  /\ \E i \in 1..Len(mcall.V) : mcall.V[i] = Fin(0) /\ mout[i] = Fin(0)
  /\ \E i \in 1..Len(mcall.V) :
       /\ mcall.a.v < 0
       /\ FAdd(mcall.h, FMul(mcall.a, mcall.V[i])).v < 0
       /\ mout[i] = FMul(A_f, mcall.V[i])
  /\ \E i \in 1..Len(mcall.V) : mout[i].v > 0 /\ mout[i] # FMul(A_f, mcall.V[i])

\* C8: a finished fit_simmons(V, J) has the outcome of
\* fit_model(V, J, simmons_current_density, (1.0, 1.0)), a finished
\* fit_bdr(V, J) that of fit_model(V, J, bdr_current_density,
\* (1.0, 1.0, 0.0)), and neither has made any call but that one.
C8_WrappersDelegate ==
  Finished =>
    /\ call.entry = "fit_simmons" =>
         /\ outcome = fit_model(call.V, call.J, "simmons", <<Scale, Scale>>)
         /\ cf_calls = << curve_fit_args(call.V, call.J, "simmons",
                                         <<Scale, Scale>>) >>
    /\ call.entry = "fit_bdr" =>
         /\ outcome = fit_model(call.V, call.J, "bdr", <<Scale, Scale, 0>>)
         /\ cf_calls = << curve_fit_args(call.V, call.J, "bdr",
                                         <<Scale, Scale, 0>>) >>
C8_Witness ==
  /\ Finished
  /\ call.entry = "fit_bdr"
  /\ outcome.tag = "return"
  /\ outcome.pcov = "finite"
  /\ outcome.start = <<Scale, Scale, 0>>

\* C9: a fit_model call never calls the optimizer a second time; a finished
\* one has called it once, from the caller's initial guess and with an
\* evaluation cap of 20000, and what the optimizer raised is what the
\* caller gets.
C9_OneOptimizerRun ==
  /\ Len(cf_calls) <= 1
  /\ Finished =>
       /\ Len(cf_calls) = 1
       /\ cf_calls[1].p0 = call.p0
       /\ cf_calls[1].f = call.model
       /\ cf_calls[1].maxfev = 20000
       /\ curve_fit(cf_calls[1]).out.tag = "raise"
            => outcome = curve_fit(cf_calls[1]).out
       /\ (solver.ran /\ solver.ier = 5) =>
            (outcome.tag = "raise" /\ nfev >= 20000)
C9_Witness ==
  /\ Finished
  /\ solver.ran
  /\ solver.ier = 5
  /\ outcome = Raise("RuntimeError")
  /\ call.p0 = <<2 * Scale, 2 * Scale>>
  /\ Len(cf_calls) = 1

\* C10 (as claimed): every load_data that does not end in a loaded and
\* plotted table, cancelled or ended by an exception, leaves df and the
\* result text as they were.
C10_AnyFailedLoadChangesNothing ==
  [][ev' \in {"cancelled", "load_raised", "plot_raised"}
       => (df' = df /\ result_var' = result_var)]_vars

\* C10 (amended): a fit runs only while df is not None; a cancelled load
\* and a load in which load_iv_csv raises leave df and the result text as
\* they were; a fit that raises leaves the result text as it was and ends
\* in the "Fit error" dialog.
C10_AppSafety ==
  /\ [](call.entry \in {"fit_simmons", "fit_bdr"} => ~df.is_none)
  /\ [][ev' \in {"cancelled", "load_raised"}
          => (df' = df /\ result_var' = result_var)]_vars
  /\ [][(pc = "done" /\ outcome.tag = "raise" /\ pc' = "idle")
          => (result_var' = result_var /\ dialog' = "Fit error"
              /\ ev' = "fit_raised")]_vars
C10_Witness ==
  /\ ev = "load_raised"
  /\ dialog = "Error"
  /\ ~df.is_none
  /\ result_var.text = "BDR fit"

=============================================================================
